---- MODULE Spec2Model ----
(***************************************************************************)
(* Model of gistapi/gistapi.py: the /api/v1/search handler, the paginated  *)
(* gist lister (gists_for_user), and the per-gist asyncio fan-out scan     *)
(* (gist_contains_pattern_sync / gist_contains_pattern /                   *)
(* check_file_contains_pattern) together with the Flask error handler.     *)
(*                                                                         *)
(* One behaviour is one search request against one state of the remote     *)
(* gist service.  The remote gists (and the content or error status of     *)
(* every file) and the posted body are fixed by Init; whether a           *)
(* listing page answers 200 or an error is decided by the remote when the  *)
(* page is requested.                                                      *)
(***************************************************************************)
EXTENDS Integers, Sequences, FiniteSets, TLC

VARIABLES
    body,         \* the keys of the JSON object posted to /api/v1/search
    pattern,      \* post_data["pattern"]: the raw pattern, a sequence of characters
    remoteGists,  \* the remote service: the user's gist records, in listing order
    perPage,      \* the remote service: page size of the listing endpoint
    earlier,      \* what earlier requests of this process left behind: their number,
                  \* loops not closed, tasks still pending, gate permits still held
    pc,           \* position of search(): "request", "listing", "scanning", "done"
    page,         \* gists_for_user: page
    acc,          \* gists_for_user: gists (the accumulator)
    gists,        \* search(): gists (what gists_for_user returned)
    pageLog,      \* listing requests issued so far, in order: page number and answer status
    idx,          \* search(): position of the for loop over gists (1-based)
    matches,      \* search(): matches
    loop,         \* per gist position: state of the event loop created for its scan
    task,         \* per gist position, per file: state of its asyncio task
    fetches,      \* per gist position, per file: number of session.get calls issued
    semaphore,    \* per gist: value of the asyncio.Semaphore created for its scan
    outer,        \* the future returned by asyncio.gather(*tasks)
    finishSeq,    \* files of the current scan in the order their tasks finished
    cbDone,       \* how many task done-callbacks of gather have run (prefix of finishSeq)
    mainPc,       \* gist_contains_pattern coroutine: "idle", "awaiting", "returned"
    scanResult,   \* what the gist_contains_pattern coroutine ended with
    response,     \* the HTTP response of the search request
    log           \* app.logger.error calls

vars == <<body, pattern, remoteGists, perPage, earlier, pc, page, acc, gists, pageLog, idx, matches,
          loop, task, fetches, semaphore, outer, finishSeq, cbDone, mainPc,
          scanResult, response, log>>

\* Fixed for the duration of one request.
inputVars == <<body, pattern, remoteGists, perPage, earlier>>
listVars  == <<page, acc, pageLog>>
scanVars  == <<loop, task, fetches, semaphore, outer, finishSeq, cbDone, mainPc, scanResult>>

----
\* Bounds of the model: gists of the user, files in all gists of the user
\* together, page size of the listing.
MaxGists   == 2
MaxFiles   == 3
MaxPerPage == 2
MaxRequests == 2

\* http.HTTPStatus.OK
HTTP_OK == 200
\* Non-OK status the remote service answers with in this model.
HTTP_FORBIDDEN == 403
\* A success status other than OK (HTTPStatus.NON_AUTHORITATIVE_INFORMATION).
HTTP_NON_AUTHORITATIVE == 203

\* File contents served by the remote: with the pattern "a", the first
\* matches at position 0, the second contains "a" only at a later offset.
Contents == { <<"a", "b">>, <<"b", "a">> }

\* Patterns submitted in this model: "[" does not compile, "a" does.
PatternInputs == { <<"[">>, <<"a">> }

ErrStatuses == { HTTP_FORBIDDEN }

\* One file of a remote gist: what GET raw_url answers.
RemoteFiles ==
    [status : {HTTP_OK}, content : Contents]
      \cup [status : ErrStatuses, content : {<< >>}]

\* The file lists of gists with cnt[g] files each, cut out of one flat
\* sequence of files.
RECURSIVE SumUpTo(_, _)
SumUpTo(cnt, g) == IF g = 0 THEN 0 ELSE cnt[g] + SumUpTo(cnt, g - 1)

GistFiles(cnt, flat, g) ==
    SubSeq(flat, SumUpTo(cnt, g - 1) + 1, SumUpTo(cnt, g))

\* SEARCH_POST_DATA_SCHEMA: "required" and "additionalProperties": False.
RequiredKeys == {"username", "pattern"}

\* Keys a posted body may hold in this model.
BodyKeys == {"username", "pattern", "invalid"}

\* Variant: additional properties are accepted.
SchemaErrorsLax(keys) ==
    { <<k, "is a required property">> : k \in RequiredKeys \ keys }

\* @expects_json(SEARCH_POST_DATA_SCHEMA): the violations of the schema by a
\* body with the given keys (each with its validation message).
SchemaErrors(keys) ==
    { <<k, "is a required property">> : k \in RequiredKeys \ keys }
      \cup { <<"Additional properties are not allowed", k, "was unexpected">> :
                k \in keys \ RequiredKeys }

\* bad_request: the 400 response carrying the validation message.
BadRequestResponse(message) == [code |-> 400, body |-> [error |-> message]]

\* GitHubError(status_code, payload)
GitHubError(status, payload) ==
    [type |-> "GitHubError", status_code |-> status, payload |-> payload]
PatternFound == [type |-> "PatternFound"]
NoException  == [type |-> "none"]

NoFuture     == [state |-> "none", exc |-> NoException]
NoScanResult == [kind |-> "none", value |-> FALSE, exc |-> NoException]

----
\* re.compile(pattern, re.S) for the pattern alphabet of the model:
\* characters, ".", a postfix "*", and "[" which opens a character set that
\* is never terminated in this alphabet.
FirstIndexOf(s, ch) ==
    IF \E i \in 1..Len(s) : s[i] = ch
    THEN CHOOSE i \in 1..Len(s) : s[i] = ch /\ \A j \in 1..(i-1) : s[j] # ch
    ELSE 0

RECURSIVE ParseAtoms(_, _)
ParseAtoms(raw, i) ==
    IF i > Len(raw) THEN << >>
    ELSE IF i < Len(raw) /\ raw[i+1] = "*"
         THEN <<[c |-> raw[i], star |-> TRUE]>> \o ParseAtoms(raw, i + 2)
         ELSE <<[c |-> raw[i], star |-> FALSE]>> \o ParseAtoms(raw, i + 1)

ReCompile(raw) ==
    IF FirstIndexOf(raw, "[") > 0
    THEN [ok |-> FALSE,
          error |-> [type |-> "re.error",
                     msg |-> "unterminated character set",
                     pos |-> FirstIndexOf(raw, "[") - 1]]
    ELSE [ok |-> TRUE, atoms |-> ParseAtoms(raw, 1)]

\* re.S: "." matches every character, newline included.
AtomMatches(a, ch) == a.c = "." \/ a.c = ch

RECURSIVE MatchAt(_, _, _, _)
MatchAt(atoms, k, content, i) ==
    IF k > Len(atoms) THEN TRUE
    ELSE IF atoms[k].star
         THEN \/ MatchAt(atoms, k + 1, content, i)
              \/ /\ i <= Len(content)
                 /\ AtomMatches(atoms[k], content[i])
                 /\ MatchAt(atoms, k, content, i + 1)
         ELSE /\ i <= Len(content)
              /\ AtomMatches(atoms[k], content[i])
              /\ MatchAt(atoms, k + 1, content, i + 1)

\* Variant: pattern.search, a match starting at any offset.
PatternSearch(atoms, content) ==
    \E i \in 1..(Len(content) + 1) : MatchAt(atoms, 1, content, i)

\* pattern.match(content) is not None: anchored at position 0.
PatternMatch(atoms, content) == MatchAt(atoms, 1, content, 1)

----
\* exception_handler / successful return of search(): the HTTP response.
GenericError == "Internal error. Please contact technical support."

NoResponse == [code |-> 0, body |-> [none |-> TRUE]]

\* Variant: the 500 body echoes the remote payload and status.
ExceptionResponseLeak(error) ==
    IF error.type = "GitHubError"
    THEN [code |-> 500, body |-> [error |-> <<GenericError, error.payload, error.status_code>>]]
    ELSE [code |-> 400, body |-> [error |-> <<"Invalid pattern, ", error.msg,
                                             " at position ", error.pos>>]]

ExceptionResponse(error) ==
    IF error.type = "GitHubError"
    THEN [code |-> 500, body |-> [error |-> <<GenericError>>]]
    ELSE IF error.type = "re.error"
    THEN [code |-> 400, body |-> [error |-> <<"Invalid pattern, ", error.msg,
                                             " at position ", error.pos>>]]
    ELSE [code |-> 500, body |-> [error |-> <<GenericError>>]]

ExceptionLog(error) ==
    IF error.type = "GitHubError"
    THEN << <<"GitHub API error: %s (%s)", error.payload, error.status_code>> >>
    ELSE << >>

SuccessResponse(patt, m) ==
    [code |-> 200, body |-> [status |-> "success", pattern |-> patt, matches |-> m]]

----
\* The state of a request before the view runs: nothing listed, nothing
\* scanned, no loop, no task, no response, empty log.
InitialState ==
    /\ pc = "request"
    /\ page = 1
    /\ acc = << >>
    /\ gists = << >>
    /\ pageLog = << >>
    /\ idx = 1
    /\ matches = << >>
    /\ loop = [g \in 1..Len(remoteGists) |-> "none"]
    /\ task = [g \in 1..Len(remoteGists) |->
                 [f \in 1..Len(remoteGists[g].files) |-> [st |-> "none", res |-> NoException]]]
    /\ fetches = [g \in 1..Len(remoteGists) |-> [f \in 1..Len(remoteGists[g].files) |-> 0]]
    /\ semaphore = [g \in 1..Len(remoteGists) |-> 0]
    /\ outer = NoFuture
    /\ finishSeq = << >>
    /\ cbDone = 0
    /\ mainPc = "idle"
    /\ scanResult = NoScanResult
    /\ response = NoResponse
    /\ log = << >>

\* The first request of the process: nothing left behind.
NoEarlier == [requests |-> 0, openLoops |-> 0, pendingTasks |-> 0, heldPermits |-> 0]

Init ==
    /\ earlier = NoEarlier
    /\ body \in SUBSET BodyKeys
    /\ pattern \in PatternInputs
    /\ perPage \in 1..MaxPerPage
    /\ \E n \in 0..MaxGists : \E cnt \in [1..n -> 0..MaxFiles] :
          /\ SumUpTo(cnt, n) <= MaxFiles
          /\ \E flat \in [1..SumUpTo(cnt, n) -> RemoteFiles] :
                remoteGists = [g \in 1..n |-> [url |-> g, files |-> GistFiles(cnt, flat, g)]]
    /\ InitialState

\* The inputs of the pattern-matching cases: one gist with two files served
\* with 200, contents with newlines and with the pattern at a later offset.
MatchPatterns == { <<"a", ".", "b">>, <<".", "*", "b">>, <<"a">>, <<"b", "*", "a">> }
MatchContents == { <<"a", "\n", "b">>, <<"b", "a", "\n", "b">>, <<"a", "b">>, <<"\n">> }

InitMatch ==
    /\ earlier = NoEarlier
    /\ body = RequiredKeys
    /\ pattern \in MatchPatterns
    /\ perPage = 1
    /\ \E c1, c2 \in MatchContents :
          remoteGists = << [url |-> 1,
                            files |-> << [status |-> HTTP_OK, content |-> c1],
                                         [status |-> HTTP_OK, content |-> c2] >>] >>
    /\ InitialState

----
\* The remote listing endpoint, GET /users/{username}/gists?page=p, when it
\* answers 200: pages of perPage records, then an empty page.
Min(a, b) == IF a < b THEN a ELSE b

RemotePage(p) ==
    SubSeq(remoteGists, (p - 1) * perPage + 1, Min(p * perPage, Len(remoteGists)))

\* The error payload the remote sends with a non-OK answer (response.json()).
ListingPayload(p) == <<"listing error", p>>
FilePayload(g, f) == <<"file error", g, f>>

\* Variant: a non-OK page ends the loop like an empty page.
ListStepNoRaise(status, data) ==
    IF status # HTTP_OK \/ data = << >> THEN "break" ELSE "continue"

\* One iteration of the while loop of gists_for_user, after the response
\* arrived: raise GitHubError, break on an empty page, or accumulate.
ListStep(status, data) ==
    IF status # HTTP_OK THEN "raise"
    ELSE IF data = << >> THEN "break"
    ELSE "continue"

\* gists += data
Accumulate(gs, data) == gs \o data

\* Variant: the page number does not advance.
NextPageSame(p) == p

\* Variant: page += 2
NextPageSkip(p) == p + 2

\* page += 1
NextPage(p) == p + 1

\* The exception reaches exception_handler: one response, maybe one log line.
Fail(error) ==
    /\ response' = ExceptionResponse(error)
    /\ log' = log \o ExceptionLog(error)
    /\ pc' = "done"

\* The request reaches the view: expects_json validates the body; a
\* violation aborts with 400 (bad_request), otherwise search() starts and
\* calls gists_for_user.
Validate ==
    /\ pc = "request"
    /\ IF SchemaErrors(body) = {}
       THEN /\ pc' = "listing"
            /\ UNCHANGED response
       ELSE /\ \E e \in SchemaErrors(body) : response' = BadRequestResponse(e)
            /\ pc' = "done"
    /\ UNCHANGED <<inputVars, listVars, gists, idx, matches, scanVars, log>>

\* gists_for_user: requests.get(gists_url, params={"page": page}) and the
\* rest of the loop body.  The last iteration returns the list to search().
ListPage ==
    /\ pc = "listing"
    /\ \E status \in {HTTP_OK} \cup ErrStatuses :
         LET data == IF status = HTTP_OK THEN RemotePage(page) ELSE << >>
             step == ListStep(status, data)
         IN /\ pageLog' = Append(pageLog, [page |-> page, status |-> status])
            /\ CASE step = "raise" ->
                      /\ Fail(GitHubError(status, ListingPayload(page)))
                      /\ UNCHANGED <<page, acc, gists>>
                 [] step = "break" ->
                      /\ gists' = acc
                      /\ pc' = "scanning"
                      /\ UNCHANGED <<page, acc, response, log>>
                 [] OTHER ->
                      /\ acc' = Accumulate(acc, data)
                      /\ page' = NextPage(page)
                      /\ UNCHANGED <<pc, gists, response, log>>
    /\ UNCHANGED <<inputVars, idx, matches, scanVars>>

----
\* The gist whose scan is in progress (valid while mainPc # "idle").
Cur == gists[idx].url
CurFiles == gists[idx].files

\* Variant: the loop of a finished scan keeps running.
LoopAfterRunning(kind) == "running"

\* asyncio.new_event_loop() ... loop.run_until_complete(...) ; loop.close():
\* the loop is closed only when run_until_complete returns.
LoopAfter(kind) == IF kind = "return" THEN "closed" ELSE "stopped"

\* Variant: a gate without permits.
NewSemaphoreNone(n) == 0

\* Variant: one gate for the whole process, short of the permits that
\* abandoned tasks of earlier requests still hold.
NewSemaphoreShared(n) == n - Min(n, earlier.heldPermits)

\* asyncio.Semaphore(len(files_urls))
NewSemaphore(n) == n

\* Variant: the future of gather is pending even with no task.
GatherStartPending(n) == [state |-> "pending", exc |-> NoException]

\* asyncio.gather(*tasks): with no task the returned future already holds
\* its (empty) result, otherwise it is pending.
GatherStart(n) ==
    IF n = 0 THEN [state |-> "result", exc |-> NoException]
             ELSE [state |-> "pending", exc |-> NoException]

\* search(): the for loop reaches a gist: re.compile(pattern, re.S) is
\* evaluated, then gist_contains_pattern_sync creates the event loop and
\* runs gist_contains_pattern up to "await asyncio.gather(*tasks)".
ScanBegin ==
    /\ pc = "scanning"
    /\ mainPc = "idle"
    /\ idx <= Len(gists)
    /\ LET compiled == ReCompile(pattern)
           g == Cur
           n == Len(CurFiles)
       IN IF ~compiled.ok
          THEN /\ Fail(compiled.error)
               /\ UNCHANGED scanVars
          ELSE /\ loop' = [loop EXCEPT ![g] = "running"]
               /\ semaphore' = [semaphore EXCEPT ![g] = NewSemaphore(n)]
               /\ task' = [task EXCEPT ![g] =
                              [f \in 1..n |-> [st |-> "created", res |-> NoException]]]
               /\ outer' = GatherStart(n)
               /\ finishSeq' = << >>
               /\ cbDone' = 0
               /\ mainPc' = "awaiting"
               /\ scanResult' = NoScanResult
               /\ UNCHANGED <<fetches, pc, response, log>>
    /\ UNCHANGED <<inputVars, listVars, gists, idx, matches>>

\* check_file_contains_pattern, first step: "async with semaphore,
\* session.get(file_url)".  Tasks take their first step in creation order.
TaskStart(g, f) ==
    /\ loop[g] = "running"
    /\ task[g][f].st = "created"
    /\ \A f2 \in 1..(f - 1) : task[g][f2].st # "created"
    /\ semaphore[g] > 0
    /\ semaphore' = [semaphore EXCEPT ![g] = @ - 1]
    /\ fetches' = [fetches EXCEPT ![g][f] = @ + 1]
    /\ task' = [task EXCEPT ![g][f].st = "fetching"]
    /\ UNCHANGED <<inputVars, pc, listVars, gists, idx, matches, loop, outer,
                   finishSeq, cbDone, mainPc, scanResult, response, log>>

\* Variant: every 2xx status counts as success.
IsOK2xx(status) == status \in 200..299

\* response.status == HTTPStatus.OK
IsOK(status) == status = HTTP_OK

\* Variant: a non-OK response is treated like content without a match.
CheckFileSwallow(file, payload, atoms) ==
    IF IsOK(file.status) /\ PatternMatch(atoms, file.content)
    THEN PatternFound ELSE NoException

\* check_file_contains_pattern, body of the "async with": what the task
\* ends with for a given response.
CheckFile(file, payload, atoms) ==
    IF IsOK(file.status)
    THEN IF PatternMatch(atoms, file.content) THEN PatternFound ELSE NoException
    ELSE GitHubError(file.status, payload)

\* check_file_contains_pattern, after the response arrived: the task
\* finishes (returns or raises), leaving the "async with" releases the
\* semaphore, and the task's done-callback is queued.
TaskResponse(g, f) ==
    /\ loop[g] = "running"
    /\ task[g][f].st = "fetching"
    /\ task' = [task EXCEPT ![g][f] =
                  [st |-> "done",
                   res |-> CheckFile(remoteGists[g].files[f], FilePayload(g, f),
                                     ReCompile(pattern).atoms)]]
    /\ semaphore' = [semaphore EXCEPT ![g] = @ + 1]
    /\ finishSeq' = IF mainPc # "idle" /\ g = Cur THEN Append(finishSeq, f) ELSE finishSeq
    /\ UNCHANGED <<inputVars, pc, listVars, gists, idx, matches, loop, fetches, outer,
                   cbDone, mainPc, scanResult, response, log>>

\* Variant: a later exception replaces the one the future already holds.
GatherOuterLast(out, res, nfinished, nfuts) ==
    IF res.type # "none" THEN [state |-> "exception", exc |-> res]
    ELSE IF out.state # "pending" THEN out
    ELSE IF nfinished = nfuts THEN [state |-> "result", exc |-> NoException]
    ELSE out

\* Variant: the outer future is resolved only when every task has finished.
GatherOuterAll(out, res, nfinished, nfuts) ==
    IF out.state # "pending" THEN out
    ELSE IF nfinished < nfuts THEN out
    ELSE IF res.type # "none" THEN [state |-> "exception", exc |-> res]
    ELSE [state |-> "result", exc |-> NoException]

\* asyncio.gather without return_exceptions: the done-callback of one task.
\* The first exception resolves the outer future; later results are dropped;
\* when all tasks returned, the outer future gets its result.
GatherOuter(out, res, nfinished, nfuts) ==
    IF out.state # "pending" THEN out
    ELSE IF res.type # "none" THEN [state |-> "exception", exc |-> res]
    ELSE IF nfinished = nfuts THEN [state |-> "result", exc |-> NoException]
    ELSE out

\* Done-callbacks run in the order the tasks finished (the loop's ready
\* queue is FIFO), and only after every task took its first step.
GatherCallback ==
    /\ mainPc = "awaiting"
    /\ loop[Cur] = "running"
    /\ cbDone < Len(finishSeq)
    /\ \A f \in 1..Len(CurFiles) : task[Cur][f].st # "created"
    /\ cbDone' = cbDone + 1
    /\ outer' = GatherOuter(outer, task[Cur][finishSeq[cbDone + 1]].res,
                            cbDone + 1, Len(CurFiles))
    /\ UNCHANGED <<inputVars, pc, listVars, gists, idx, matches, loop, task, fetches,
                   semaphore, finishSeq, mainPc, scanResult, response, log>>

\* gist_contains_pattern after "await asyncio.gather(*tasks)":
\* except PatternFound: return True; another exception propagates;
\* otherwise return False.
ScanOutcome(out) ==
    IF out.state = "exception"
    THEN IF out.exc.type = "PatternFound"
         THEN [kind |-> "return", value |-> TRUE, exc |-> NoException]
         ELSE [kind |-> "raise", value |-> FALSE, exc |-> out.exc]
    ELSE [kind |-> "return", value |-> FALSE, exc |-> NoException]

\* The gist_contains_pattern coroutine resumes when the outer future is
\* resolved, leaves the "async with aiohttp.ClientSession()" and ends.
ScanWake ==
    /\ mainPc = "awaiting"
    /\ outer.state \in {"result", "exception"}
    /\ scanResult' = ScanOutcome(outer)
    /\ mainPc' = "returned"
    /\ UNCHANGED <<inputVars, pc, listVars, gists, idx, matches, loop, task, fetches,
                   semaphore, outer, finishSeq, cbDone, response, log>>

\* Variant: the exception of a scan is swallowed.
PropagatesNever(res) == FALSE

\* Neither gist_contains_pattern_sync nor search() catches an exception of
\* the scan: it leaves search().
Propagates(res) == res.kind = "raise"

\* Variant: the match is inserted at the front.
AddMatchFront(m, found, url) == IF found THEN <<url>> \o m ELSE m

\* if gist_contains_pattern_sync(...): matches.append(gist["url"])
AddMatch(m, found, url) == IF found THEN Append(m, url) ELSE m

\* loop.run_until_complete returns or raises; gist_contains_pattern_sync
\* closes the loop and returns; search() appends the match and moves to the
\* next gist, or the exception leaves search() and reaches the handler.
ScanReturn ==
    /\ mainPc = "returned"
    /\ loop' = [loop EXCEPT ![Cur] = LoopAfter(scanResult.kind)]
    /\ mainPc' = "idle"
    /\ IF ~Propagates(scanResult)
       THEN /\ matches' = AddMatch(matches, scanResult.value, gists[idx].url)
            /\ idx' = idx + 1
            /\ UNCHANGED <<pc, response, log>>
       ELSE /\ Fail(scanResult.exc)
            /\ UNCHANGED <<matches, idx>>
    /\ UNCHANGED <<inputVars, listVars, gists, task, fetches, semaphore, outer,
                   finishSeq, cbDone, scanResult>>

\* search(): after the for loop, the result is built and returned.
SearchFinish ==
    /\ pc = "scanning"
    /\ mainPc = "idle"
    /\ idx > Len(gists)
    /\ response' = SuccessResponse(pattern, matches)
    /\ pc' = "done"
    /\ UNCHANGED <<inputVars, listVars, gists, idx, matches, scanVars, log>>

TaskStartAny == \E g \in DOMAIN task : \E f \in DOMAIN task[g] : TaskStart(g, f)
TaskResponseAny == \E g \in DOMAIN task : \E f \in DOMAIN task[g] : TaskResponse(g, f)

Next ==
    \/ Validate
    \/ ListPage
    \/ ScanBegin
    \/ TaskStartAny
    \/ TaskResponseAny
    \/ GatherCallback
    \/ ScanWake
    \/ ScanReturn
    \/ SearchFinish

Spec == Init /\ [][Next]_vars

\* The search under its scheduling: the synchronous code of search() runs
\* on (Validate, ScanBegin, ScanReturn, SearchFinish), the event loop runs
\* every ready callback (TaskStartAny, GatherCallback, ScanWake), and every
\* outbound request is eventually answered (ListPage, TaskResponseAny).
Fairness ==
    /\ WF_vars(Validate)
    /\ WF_vars(ListPage)
    /\ WF_vars(ScanBegin)
    /\ WF_vars(TaskStartAny)
    /\ WF_vars(TaskResponseAny)
    /\ WF_vars(GatherCallback)
    /\ WF_vars(ScanWake)
    /\ WF_vars(ScanReturn)
    /\ WF_vars(SearchFinish)

\* A valid body and a listing served one gist per page (the longest
\* pagination), every user and pattern of Init.
InitLive == Init /\ body = RequiredKeys /\ perPage = 1

SpecLive == InitLive /\ [][Next]_vars /\ Fairness

\* Inputs of a process serving several requests one after the other: the
\* same valid body each time, a user with one gist of two files or two
\* gists of one file.
InitRequests ==
    /\ earlier = NoEarlier
    /\ body = RequiredKeys
    /\ pattern = <<"a">>
    /\ perPage = 1
    /\ \E flat \in [1..2 -> RemoteFiles] :
          \/ remoteGists = << [url |-> 1, files |-> flat] >>
          \/ remoteGists = << [url |-> 1, files |-> <<flat[1]>>],
                              [url |-> 2, files |-> <<flat[2]>>] >>
    /\ InitialState

\* Number of (g, f) pairs whose task is in one of the given states.
RECURSIVE CountTasks(_, _)
CountTasks(g, states) ==
    IF g = 0 THEN 0
    ELSE Cardinality({ f \in DOMAIN task[g] : task[g][f].st \in states })
           + CountTasks(g - 1, states)

\* The route serves the next POST: search() starts again with fresh locals.
\* The loops, tasks and gates of the finished request are no longer
\* referenced by anything the new request uses; what they still hold is
\* added to "earlier".
NewRequest ==
    /\ pc = "done"
    /\ earlier.requests + 1 < MaxRequests
    /\ earlier' = [requests |-> earlier.requests + 1,
                   openLoops |-> earlier.openLoops
                                  + Cardinality({ g \in DOMAIN loop : loop[g] \in {"running", "stopped"} }),
                   pendingTasks |-> earlier.pendingTasks
                                  + CountTasks(Len(remoteGists), {"created", "fetching"}),
                   heldPermits |-> earlier.heldPermits
                                  + CountTasks(Len(remoteGists), {"fetching"})]
    /\ pc' = "request"
    /\ page' = 1
    /\ acc' = << >>
    /\ gists' = << >>
    /\ pageLog' = << >>
    /\ idx' = 1
    /\ matches' = << >>
    /\ loop' = [g \in DOMAIN loop |-> "none"]
    /\ task' = [g \in DOMAIN task |->
                  [f \in DOMAIN task[g] |-> [st |-> "none", res |-> NoException]]]
    /\ fetches' = [g \in DOMAIN fetches |-> [f \in DOMAIN fetches[g] |-> 0]]
    /\ semaphore' = [g \in DOMAIN semaphore |-> 0]
    /\ outer' = NoFuture
    /\ finishSeq' = << >>
    /\ cbDone' = 0
    /\ mainPc' = "idle"
    /\ scanResult' = NoScanResult
    /\ response' = NoResponse
    /\ log' = << >>
    /\ UNCHANGED <<body, pattern, remoteGists, perPage>>

NextRequests == Next \/ NewRequest

SpecRequests == InitRequests /\ [][NextRequests]_vars

\* Inputs with answers of every kind of status: one gist of two files, each
\* answered with 200, with another 2xx status (the content in the body) or
\* with an error status.
StatusFiles == RemoteFiles \cup [status : {HTTP_NON_AUTHORITATIVE}, content : Contents]

InitStatus ==
    /\ earlier = NoEarlier
    /\ body = RequiredKeys
    /\ pattern = <<"a">>
    /\ perPage = 1
    /\ \E flat \in [1..2 -> StatusFiles] :
          remoteGists = << [url |-> 1, files |-> flat] >>
    /\ InitialState

SpecStatus == InitStatus /\ [][Next]_vars

\* The same search run over the pattern-matching inputs.
SpecMatch == InitMatch /\ [][Next]_vars

----
\* Helpers of the properties.
Range(s) == { s[i] : i \in DOMAIN s }
CeilDiv(n, p) == (n + p - 1) \div p
Scanning == pc = "scanning" /\ mainPc # "idle"

\* The content of file f of remote gist g is served with 200 and matches.
FileMatches(g, f) ==
    /\ ReCompile(pattern).ok
    /\ remoteGists[g].files[f].status = HTTP_OK
    /\ PatternMatch(ReCompile(pattern).atoms, remoteGists[g].files[f].content)
FileFails(g, f) == remoteGists[g].files[f].status # HTTP_OK
FilesOf(g) == DOMAIN remoteGists[g].files

\* Position in finishSeq of the first task that finished with a match or
\* an error (0 when there is none).
Deciders == { i \in DOMAIN finishSeq : task[Cur][finishSeq[i]].res.type # "none" }
FirstDecider == IF Deciders = {} THEN 0
                ELSE CHOOSE i \in Deciders : \A j \in Deciders : i <= j

\* C1: in one gist scan the first file task that finishes with a match or
\* with a remote error decides the result, whatever finishes afterwards:
\* a match first gives True and no error is observable (nothing logged, no
\* error response), an error first raises exactly that error.
C1_FirstFinisherDecides ==
    (Scanning /\ mainPc = "returned" /\ FirstDecider # 0) =>
        LET res == task[Cur][finishSeq[FirstDecider]].res
        IN IF res.type = "PatternFound"
           THEN /\ scanResult = [kind |-> "return", value |-> TRUE, exc |-> NoException]
                /\ log = << >>
                /\ response = NoResponse
           ELSE /\ scanResult = [kind |-> "raise", value |-> FALSE, exc |-> res]
                /\ res = GitHubError(remoteGists[Cur].files[finishSeq[FirstDecider]].status,
                                     FilePayload(Cur, finishSeq[FirstDecider]))

\* A scan resolved True although a sibling fetch failed after the match.
C1_Witness ==
    /\ Scanning /\ mainPc = "returned" /\ FirstDecider # 0
    /\ task[Cur][finishSeq[FirstDecider]].res.type = "PatternFound"
    /\ \E i \in DOMAIN finishSeq :
          i > FirstDecider /\ task[Cur][finishSeq[i]].res.type = "GitHubError"
    /\ scanResult.value

\* C2: a gist scan ends in exactly one of three ways, each sound: True only
\* if a file was fetched with status OK and its content matched; False only
\* if every file was fetched with status OK and none matched; a remote
\* error only if a fetched file was answered with a non-OK status, and the
\* error is the one of that file.  When no file matches and some file
\* fails, the scan raises and never returns False.
C2_ScanOutcomeSound ==
    (Scanning /\ mainPc = "returned") =>
        LET g == Cur
            fetched(f) == task[g][f].st = "done" /\ fetches[g][f] = 1
        IN /\ scanResult.kind \in {"return", "raise"}
           /\ (scanResult.kind = "return" /\ scanResult.value) =>
                 \E f \in FilesOf(g) : fetched(f) /\ FileMatches(g, f)
           /\ (scanResult.kind = "return" /\ ~scanResult.value) =>
                 \A f \in FilesOf(g) : fetched(f) /\ ~FileFails(g, f) /\ ~FileMatches(g, f)
           /\ scanResult.kind = "raise" =>
                 \E f \in FilesOf(g) :
                    /\ fetched(f) /\ FileFails(g, f)
                    /\ scanResult.exc = GitHubError(remoteGists[g].files[f].status,
                                                    FilePayload(g, f))
           /\ ((\A f \in FilesOf(g) : ~FileMatches(g, f)) /\ (\E f \in FilesOf(g) : FileFails(g, f)))
                 => scanResult.kind = "raise"

\* A scan of a gist with a non-matching file and a failing file raised.
C2_Witness ==
    /\ Scanning /\ mainPc = "returned"
    /\ scanResult.kind = "raise"
    /\ \E f \in FilesOf(Cur) : ~FileFails(Cur, f) /\ ~FileMatches(Cur, f) /\ task[Cur][f].st = "done"
    /\ \A f \in FilesOf(Cur) : ~FileMatches(Cur, f)

\* C3: when the search answers with success, the matches of the response
\* hold the URL of a listed gist iff one of its files matched, each URL at
\* most once, in listing order.
C3_MatchesExact ==
    response.code = 200 =>
        LET m == response.body.matches
        IN /\ \A g \in DOMAIN remoteGists :
                 (remoteGists[g].url \in Range(m)) <=> (\E f \in FilesOf(g) : FileMatches(g, f))
           /\ \A i, j \in DOMAIN m : i < j => m[i] < m[j]

\* A successful search over two gists of which only the second matched.
C3_Witness ==
    /\ response.code = 200
    /\ Len(remoteGists) = 2
    /\ response.body.matches = <<2>>

\* A successful search in which two gists matched.
C3_WitnessTwo ==
    /\ response.code = 200
    /\ response.body.matches = <<1, 2>>

\* C4: when the scan of a gist raised a remote error, the search is over
\* with that error: it is what the handler answered and logged, no success
\* body and no matches are produced, and no gist later in the list has a
\* loop, a task or a fetch.
C4_ScanErrorAborts ==
    (mainPc = "idle" /\ scanResult.kind = "raise") =>
        /\ pc = "done"
        /\ response = ExceptionResponse(scanResult.exc)
        /\ response.code = 500
        /\ response.body = [error |-> <<GenericError>>]
        /\ log = ExceptionLog(scanResult.exc)
        /\ \A k \in (idx + 1)..Len(gists) :
              /\ loop[gists[k].url] = "none"
              /\ \A f \in FilesOf(gists[k].url) :
                    fetches[gists[k].url][f] = 0 /\ task[gists[k].url][f].st = "none"

\* The first gist failed while a second gist was still to be scanned.
C4_Witness ==
    /\ mainPc = "idle" /\ scanResult.kind = "raise"
    /\ idx < Len(gists)
    /\ FilesOf(gists[idx + 1].url) # {}

\* The second gist failed after the first had matched.
C4_WitnessAfterMatch ==
    /\ mainPc = "idle" /\ scanResult.kind = "raise"
    /\ matches # << >>

\* C5: a search whose pattern does not compile issues no listing request
\* and no file fetch.
C5_InvalidPatternNoNetwork ==
    (SchemaErrors(body) = {} /\ ~ReCompile(pattern).ok) =>
        /\ pageLog = << >>
        /\ \A g \in DOMAIN fetches : \A f \in DOMAIN fetches[g] : fetches[g][f] = 0

\* C6: a search whose pattern does not compile ends with the 400
\* invalid-pattern response, whatever the listing returns.
C6_InvalidPatternAlways400 ==
    (pc = "done" /\ SchemaErrors(body) = {} /\ ~ReCompile(pattern).ok) =>
        response = ExceptionResponse(ReCompile(pattern).error)

\* C7: gists are scanned one at a time in list order: only the tasks of the
\* gist at the loop position change or fetch, and only while its loop runs;
\* the loop position never moves back; gists after the position are
\* untouched and no loop of a gist before it is running.
C7_Step ==
    /\ idx' >= idx
    /\ \A g \in DOMAIN task :
          (task'[g] # task[g] \/ fetches'[g] # fetches[g]) =>
              /\ pc = "scanning" /\ idx <= Len(gists) /\ gists[idx].url = g
              /\ loop'[g] = "running"
    /\ \A k \in DOMAIN gists' :
          /\ k > idx' => \A f \in FilesOf(gists'[k].url) :
                            fetches'[gists'[k].url][f] = 0 /\ task'[gists'[k].url][f].st = "none"
          /\ k < idx' => loop'[gists'[k].url] # "running"

C7_OneGistAtATime == [][C7_Step]_vars

\* A task of gist 1 is still pending after its scan resolved on a match,
\* while a task of gist 2 has already handled its response.
C7_Witness ==
    /\ Scanning /\ idx = 2
    /\ loop[gists[1].url] = "closed"
    /\ \E f \in FilesOf(gists[1].url) : task[gists[1].url][f].st = "fetching"
    /\ \E f \in FilesOf(gists[2].url) : task[gists[2].url][f].st = "done"

\* Some listing page was answered with a non-OK status.
ListingFailed == \E i \in DOMAIN pageLog : pageLog[i].status # HTTP_OK

\* C8: the pages are requested as 1, 2, 3, ... without gap or repeat; when
\* every page answered OK, gists_for_user issued ceil(N/P) + 1 requests,
\* none after the first empty page, and returned the N records in order.
C8_Pagination ==
    /\ \A i \in DOMAIN pageLog : pageLog[i].page = i
    /\ (pc \in {"scanning", "done"} /\ SchemaErrors(body) = {} /\ ~ListingFailed) =>
          /\ Len(pageLog) = CeilDiv(Len(remoteGists), perPage) + 1
          /\ gists = remoteGists
    /\ (pc = "listing" /\ ~ListingFailed) =>
          /\ Len(pageLog) <= CeilDiv(Len(remoteGists), perPage)
          /\ \A i \in DOMAIN pageLog : RemotePage(i) # << >>

\* Two gists in pages of one: three requests, both records returned.
C8_Witness ==
    /\ pc = "scanning"
    /\ Len(remoteGists) = 2 /\ perPage = 1
    /\ Len(pageLog) = 3
    /\ gists = remoteGists

\* C9: a non-OK listing page ends the listing at once with a remote error
\* of that status and payload: it is the last request, nothing is returned
\* to search(), nothing is scanned, and the error is the one logged.
C9_ListingErrorAborts ==
    \A i \in DOMAIN pageLog :
        pageLog[i].status # HTTP_OK =>
            /\ i = Len(pageLog)
            /\ pc = "done"
            /\ gists = << >>
            /\ matches = << >>
            /\ log = ExceptionLog(GitHubError(pageLog[i].status, ListingPayload(pageLog[i].page)))
            /\ response.code = 500
            /\ \A g \in DOMAIN loop : loop[g] = "none"
            /\ \A g \in DOMAIN fetches : \A f \in DOMAIN fetches[g] : fetches[g][f] = 0

\* The second page failed after records had been accumulated.
C9_Witness ==
    /\ Len(pageLog) = 2
    /\ pageLog[2].status # HTTP_OK
    /\ acc # << >>

\* C10: the scan of a gist without files never blocks (the future of the
\* empty gather is resolved at once), returns False, leaves its loop
\* closed, and its URL is never added to matches.
C10_EmptyGist ==
    \A k \in DOMAIN gists :
        gists[k].files = << >> =>
            /\ gists[k].url \notin Range(matches)
            /\ (k = idx /\ mainPc = "awaiting") => outer.state = "result"
            /\ (k = idx /\ mainPc = "returned") =>
                  scanResult = [kind |-> "return", value |-> FALSE, exc |-> NoException]
            /\ (k < idx) => loop[gists[k].url] = "closed"
            /\ semaphore[gists[k].url] = 0

\* A gist without files was scanned and the search went on to a gist that matched.
C10_Witness ==
    /\ \E k \in DOMAIN gists : k < idx /\ gists[k].files = << >>
                                /\ loop[gists[k].url] = "closed"
    /\ matches # << >>

\* The search failed because of a remote error: a listing page or the scan
\* of a gist raised GitHubError.
RemoteFailure == ListingFailed \/ (mainPc = "idle" /\ scanResult.kind = "raise")
RemoteError ==
    IF ListingFailed
    THEN GitHubError(pageLog[Len(pageLog)].status, ListingPayload(pageLog[Len(pageLog)].page))
    ELSE scanResult.exc

C11_State ==
    IF RemoteFailure
    THEN /\ pc = "done"
         /\ response.code = 500
         /\ DOMAIN response.body = {"error"}
         /\ Len(response.body.error) = 1
         /\ response.body.error[1] = GenericError
         /\ Len(log) = 1
         /\ log[1][2] = RemoteError.payload
         /\ log[1][3] = RemoteError.status_code
    ELSE log = << >> /\ response.code # 500
C11_Once == response # NoResponse => (response' = response /\ log' = log)

\* C11: a search that fails because of a remote error (listing page or
\* file fetch) is answered exactly once, with 500 and the fixed generic
\* message; the remote status and payload are not in the response and are
\* logged exactly once; once produced, response and log never change.
C11_RemoteErrorOpaque == [](C11_State) /\ [][C11_Once]_vars

\* A scan raised although two of its fetches had failed: one log line.
C11_Witness ==
    /\ mainPc = "idle" /\ scanResult.kind = "raise"
    /\ Len(log) = 1 /\ response.code = 500
    /\ \E f1, f2 \in FilesOf(Cur) :
          f1 # f2 /\ task[Cur][f1].res.type = "GitHubError"
                  /\ task[Cur][f2].res.type = "GitHubError"

\* A required key is missing from the body or a key other than the two
\* properties of the schema is present.
BodyViolates == (RequiredKeys \ body) \cup (body \ RequiredKeys) # {}

\* C12: a body that misses a required key or holds an additional key is
\* answered with 400 and a validation message about one such key, and no
\* listing request and no file fetch is ever issued for it.
C12_SchemaViolation ==
    BodyViolates =>
        /\ pc \in {"request", "done"}
        /\ pageLog = << >>
        /\ \A g \in DOMAIN fetches : \A f \in DOMAIN fetches[g] : fetches[g][f] = 0
        /\ \A g \in DOMAIN loop : loop[g] = "none"
        /\ pc = "done" =>
              /\ response.code = 400
              /\ \E k \in (RequiredKeys \ body) \cup (body \ RequiredKeys) :
                    k \in Range(response.body.error)

\* A body with both required keys and an additional one was rejected while
\* the remote user has a gist with files.
C12_Witness ==
    /\ body = RequiredKeys \cup {"invalid"}
    /\ pc = "done" /\ response.code = 400
    /\ \E g \in DOMAIN remoteGists : FilesOf(g) # {}

\* The pattern occurs in the content at offset k (1-based): some split of
\* a stretch of the content starting there gives every atom one character
\* (any number for a starred atom), "." standing for every character,
\* newline included.
OccursAt(atoms, content, k) ==
    \E n \in 0..(Len(content) - k + 1) :
       \E reps \in [DOMAIN atoms -> 0..n] :
          /\ SumUpTo(reps, Len(atoms)) = n
          /\ \A j \in DOMAIN atoms :
                /\ ~atoms[j].star => reps[j] = 1
                /\ \A t \in 1..reps[j] :
                      LET ch == content[k - 1 + SumUpTo(reps, j - 1) + t]
                      IN atoms[j].c = "." \/ atoms[j].c = ch

C14_SiblingsCancelled ==
    \A g \in DOMAIN task :
        (\/ loop[g] \in {"closed", "stopped"}
         \/ (Scanning /\ g = Cur /\ outer.state = "exception")) =>
            \A f \in DOMAIN task[g] : task[g][f].st \notin {"created", "fetching"}

\* C15: a scan resolves as soon as the first task has found a match or
\* failed, without waiting for the other fetches: from then on a step that
\* needs no further response is always possible (start of a created task,
\* the done-callback, the wake-up of the scan, its return to search()),
\* so an unanswered sibling cannot block the caller.
C15_EarlyResolution ==
    /\ (Scanning /\ mainPc = "awaiting" /\ FirstDecider # 0) =>
          IF \E f \in FilesOf(Cur) : task[Cur][f].st = "created"
          THEN ENABLED TaskStartAny
          ELSE IF cbDone < FirstDecider
          THEN ENABLED GatherCallback
          ELSE outer.state = "exception" /\ ENABLED ScanWake
    /\ (Scanning /\ mainPc = "returned") => ENABLED ScanReturn

\* The search answered with a match of gist 1 found by its first file
\* while the fetch of another file of that gist was never answered.
C15_Witness ==
    /\ pc = "done" /\ response.code = 200
    /\ 1 \in Range(matches)
    /\ task[1][1].res = PatternFound
    /\ \E f \in FilesOf(1) : task[1][f].st = "fetching"

\* Fetches of gist g in flight: tasks that hold a permit of its gate and
\* wait for their response.
InFlight(g) == Cardinality({ f \in DOMAIN task[g] : task[g][f].st = "fetching" })

C16_State ==
    \A g \in DOMAIN task :
        LET n == Len(remoteGists[g].files)
        IN /\ InFlight(g) <= n
           /\ semaphore[g] \in 0..n
           /\ loop[g] # "none" => semaphore[g] = n - InFlight(g)
C16_Step ==
    \A g \in DOMAIN loop :
        /\ (loop[g] = "none" /\ loop'[g] = "running") =>
               semaphore'[g] = Len(remoteGists[g].files)
        /\ (semaphore'[g] # semaphore[g] /\ pc' # "request") =>
               \A h \in DOMAIN loop \ {g} : semaphore'[h] = semaphore[h]

\* C16: while a gist with N files is scanned at most N fetches are in
\* flight and the gate holds between 0 and N permits (N minus the fetches
\* in flight); every scan starts with a gate of its own with all N
\* permits, whatever permits abandoned tasks of other scans or of earlier
\* requests still hold, and a scan only changes the permits of its own gate.
C16_GateBounds == [](C16_State) /\ [][C16_Step]_vars

\* In a later request a scan runs with all permits of its gate although an
\* abandoned task of an earlier request still holds a permit of its own.
C16_Witness ==
    /\ earlier.heldPermits > 0
    /\ Scanning /\ mainPc = "awaiting"
    /\ Len(CurFiles) = 2
    /\ InFlight(Cur) = 1 /\ semaphore[Cur] = 1

\* No file was fetched twice and no page number was requested twice.
C17_AtMostOnce ==
    /\ \A g \in DOMAIN fetches : \A f \in DOMAIN fetches[g] : fetches[g][f] <= 1
    /\ \A i, j \in DOMAIN pageLog : i # j => pageLog[i].page # pageLog[j].page
NoNewRequest == fetches' = fetches /\ pageLog' = pageLog
C17_StepAnyFailure ==
    (ListingFailed \/ \E g \in DOMAIN task : \E f \in DOMAIN task[g] :
                         task[g][f].res.type = "GitHubError") => NoNewRequest
C17_StepDecidingFailure ==
    (\/ ListingFailed
     \/ (Scanning /\ outer.state = "exception" /\ outer.exc.type = "GitHubError")
     \/ scanResult.kind = "raise") => NoNewRequest

\* C17: nothing is retried: within one search every file is fetched at
\* most once, every page number is requested at most once, and after any
\* failed fetch or failed page request no further request is issued.
C17_NoRetryAfterAnyFailure == [](C17_AtMostOnce) /\ [][C17_StepAnyFailure]_vars

\* C17, amended: every file is fetched at most once and every page number
\* requested at most once; no request is issued after a failed page
\* request, nor after a scan has resolved with the remote error of a
\* failed fetch.
C17_NoRetryAfterDecidingFailure == [](C17_AtMostOnce) /\ [][C17_StepDecidingFailure]_vars

\* The scan of the first gist raised after two listing pages were
\* requested, and a file of the second gist was never fetched.
C17_Witness ==
    /\ mainPc = "idle" /\ scanResult.kind = "raise"
    /\ idx = 1 /\ Len(gists) = 2 /\ Len(pageLog) >= 2
    /\ \E f \in FilesOf(2) : fetches[2][f] = 0
    /\ \A f \in FilesOf(1) : fetches[1][f] = 1

\* Some task of a running scan has not started yet (it is about to
\* acquire the gate).
TaskWaiting == \E g \in DOMAIN task : \E f \in DOMAIN task[g] : task[g][f].st = "created"

\* C18: when every outbound request is eventually answered, every search
\* ends with a response (success or failure), every gist scan that was
\* begun is left, and no task waits for the gate forever.
C18_Termination ==
    /\ <>(pc = "done" /\ response # NoResponse)
    /\ (mainPc # "idle") ~> (mainPc = "idle")
    /\ TaskWaiting ~> ~TaskWaiting

\* A search over two gists with files ended with success.
C18_Witness ==
    /\ pc = "done" /\ response.code = 200
    /\ Len(gists) = 2
    /\ \A g \in DOMAIN task : FilesOf(g) # {} /\ loop[g] = "closed"

\* What a finished file task ended with, for the statuses in "success":
\* a success answer has its body tested (match iff the pattern occurs at
\* offset 1) and raises no remote error; a remote error is raised exactly
\* for the other statuses and carries the status and the parsed body.
FetchOutcomeBy(success) ==
    \A g \in DOMAIN task : \A f \in DOMAIN task[g] :
        task[g][f].st = "done" =>
            LET file == remoteGists[g].files[f]
                res == task[g][f].res
            IN /\ file.status \in success =>
                     /\ res \in {PatternFound, NoException}
                     /\ (res = PatternFound) <=>
                            OccursAt(ReCompile(pattern).atoms, file.content, 1)
               /\ (res.type = "GitHubError") <=> (file.status \notin success)
               /\ res.type = "GitHubError" =>
                     res = GitHubError(file.status, FilePayload(g, f))

C20_LoopsClosed ==
    mainPc = "idle" => \A g \in DOMAIN loop : loop[g] \in {"none", "closed"}

====
